---- MODULE Spec2Model ----
(***************************************************************************)
(* Smart File Organizer: the per-file pipeline (extract -> classify ->     *)
(* place), failure triage, the file/folder name sanitizers and the naming  *)
(* collision resolver, modelled from organize.py, renamer.py,              *)
(* extractors.py and classifier.py.                                        *)
(*                                                                         *)
(* Strings are sequences of one-character strings; a path is a sequence of *)
(* components (each a string).                                             *)
(***************************************************************************)
EXTENDS Integers, Sequences, FiniteSets, TLC

VARIABLES
    pc,                 \* position of the run: construction, organize_folder,
                        \* its loop, _organize_failed_files, the return
    mode,               \* [dry_run, copy_mode] given to SmartFileOrganizer
    input,              \* the input folder: [valid, tree]
    out,                \* the output tree: [root, dirs, files]
    src,                \* source files present at their original path
    files_to_process,   \* organize_folder's sorted list
    file_idx,           \* loop index into files_to_process (1-based)
    processed_files,    \* organize_folder's list of results
    failed_idx,         \* loop index into failed_files (1-based)
    hist,               \* per processed file: the steps invoked and what
                        \* they returned
    faults,             \* the file system errors met so far
    out0,               \* the output tree before construction
    sanIn,              \* argument handed to a sanitizer
    sanOut,             \* its return value
    col,                \* one call of FileRenamer._handle_naming_collision
    place,              \* calls of FileRenamer.organize_file by two workers
    cls,                \* one call of FileClassifier.classify_file
    prev                \* the results and output tree of an earlier run

\* Python's None where a path is expected (no real path has zero components)
NoPath == <<>>

(***************************************************************************)
(* String helpers (Python str methods used by the code)                    *)
(***************************************************************************)

\* s.replace(c, to) for every single character c of chars
ReplaceChars(s, chars, to) ==
    [i \in 1..Len(s) |-> IF s[i] \in chars THEN to ELSE s[i]]

\* '__' in s
HasDoubleUnderscore(s) ==
    \E i \in 1..(Len(s) - 1) : s[i] = "_" /\ s[i + 1] = "_"

\* the elements of s at the indices in keep, in order
Keep(s, keep) ==
    [n \in 1..Cardinality(keep) |->
        s[CHOOSE k \in keep : Cardinality({j \in keep : j <= k}) = n]]

\* the number of consecutive '_' that end at index i of s
RunLength(s, i) ==
    LET start == CHOOSE j \in 1..i :
                    /\ \A k \in j..i : s[k] = "_"
                    /\ j = 1 \/ s[j - 1] # "_"
    IN  i - start + 1

\* s.replace('__', '_'): non-overlapping occurrences, left to right, so of
\* every run of '_' the 2nd, 4th, ... is dropped
ReplaceDouble(s) ==
    Keep(s, {i \in 1..Len(s) : s[i] # "_" \/ RunLength(s, i) % 2 = 1})

\* while '__' in s: s = s.replace('__', '_')
RECURSIVE CollapseUnderscores(_)
CollapseUnderscores(s) ==
    IF HasDoubleUnderscore(s) THEN CollapseUnderscores(ReplaceDouble(s)) ELSE s

\* s.lstrip(chars)
LStrip(s, chars) ==
    IF \A i \in 1..Len(s) : s[i] \in chars THEN <<>>
    ELSE SubSeq(s, CHOOSE i \in 1..Len(s) :
                      s[i] \notin chars /\ \A j \in 1..(i - 1) : s[j] \in chars,
                Len(s))

\* s.rstrip(chars)
RStrip(s, chars) ==
    IF \A i \in 1..Len(s) : s[i] \in chars THEN <<>>
    ELSE SubSeq(s, 1, CHOOSE i \in 1..Len(s) :
                         s[i] \notin chars
                         /\ \A j \in (i + 1)..Len(s) : s[j] \in chars)

\* s.strip(chars)
Strip(s, chars) == RStrip(LStrip(s, chars), chars)

\* s[:n]
Truncate(s, n) == SubSeq(s, 1, IF n < Len(s) THEN n ELSE Len(s))

\* decimal digit characters
DigitChar(d) ==
    CASE d = 0 -> "0" [] d = 1 -> "1" [] d = 2 -> "2" [] d = 3 -> "3"
      [] d = 4 -> "4" [] d = 5 -> "5" [] d = 6 -> "6" [] d = 7 -> "7"
      [] d = 8 -> "8" [] d = 9 -> "9"

\* str(n) for n >= 0
RECURSIVE Str(_)
Str(n) == IF n < 10 THEN <<DigitChar(n)>>
          ELSE Str(n \div 10) \o <<DigitChar(n % 10)>>

\* f"{n:03d}": str(n) left-padded with zeros to width 3
RECURSIVE ZeroPad(_, _)
ZeroPad(s, width) == IF Len(s) >= width THEN s ELSE ZeroPad(<<"0">> \o s, width)

CounterWidth == 3

Format03d(n) == ZeroPad(Str(n), CounterWidth)

(***************************************************************************)
(* renamer.py: sanitizers                                                  *)
(***************************************************************************)

ProblematicChars == {"/", "\\", ":", "*", "?", "\"", "<", ">", "|"}

FolderNameLimit == 100
FilenameLimit == 80

Uncategorized ==
    <<"U", "n", "c", "a", "t", "e", "g", "o", "r", "i", "z", "e", "d">>

UnnamedFile ==
    <<"u", "n", "n", "a", "m", "e", "d", "_", "f", "i", "l", "e">>

\* `if not name: name = default`
OrDefault(name, default) == IF name = <<>> THEN default ELSE name

\* variant of _sanitize_folder_name that leaves the nine characters
SanitizeFolderName_NoReplace(folder_name) ==
    LET stripped  == Strip(folder_name, {".", " "})
        truncated == Truncate(stripped, FolderNameLimit)
    IN  OrDefault(truncated, Uncategorized)

\* variant of _sanitize_folder_name without the strip of '.' and ' '
SanitizeFolderName_NoStrip(folder_name) ==
    LET replaced  == ReplaceChars(folder_name, ProblematicChars, "_")
        truncated == Truncate(replaced, FolderNameLimit)
    IN  OrDefault(truncated, Uncategorized)

\* FileRenamer._sanitize_folder_name
SanitizeFolderName(folder_name) ==
    LET replaced  == ReplaceChars(folder_name, ProblematicChars, "_")
        stripped  == Strip(replaced, {".", " "})
        truncated == Truncate(stripped, FolderNameLimit)
    IN  OrDefault(truncated, Uncategorized)

\* FileRenamer._sanitize_filename
SanitizeFilename(filename) ==
    LET replaced  == ReplaceChars(filename, ProblematicChars, "_")
        nospace   == ReplaceChars(replaced, {" "}, "_")
        collapsed == CollapseUnderscores(nospace)
        stripped  == Strip(collapsed, {"_", ".", " "})
        truncated == Truncate(stripped, FilenameLimit)
    IN  OrDefault(truncated, UnnamedFile)

(***************************************************************************)
(* pathlib: a path is a sequence of components                             *)
(***************************************************************************)

\* path / name, for a name without separators: an empty or "." segment
\* is dropped
Join(path, name) ==
    IF name = <<>> \/ name = <<".">> THEN path ELSE Append(path, name)

\* path.name
NameOf(path) == path[Len(path)]

\* path.parent
Parent(path) == SubSeq(path, 1, Len(path) - 1)

\* name.rfind('.') as a 1-based index, 0 when there is no '.'
LastDot(name) ==
    IF \E i \in 1..Len(name) : name[i] = "."
    THEN CHOOSE i \in 1..Len(name) :
            name[i] = "." /\ \A j \in (i + 1)..Len(name) : name[j] # "."
    ELSE 0

\* PurePath.suffix: the last '.'-part, unless the '.' is first or last
Suffix(name) ==
    LET i == LastDot(name)
    IN  IF 1 < i /\ i < Len(name) THEN SubSeq(name, i, Len(name)) ELSE <<>>

\* PurePath.stem
Stem(name) ==
    LET i == LastDot(name)
    IN  IF 1 < i /\ i < Len(name) THEN SubSeq(name, 1, i - 1) ELSE name

(***************************************************************************)
(* renamer.py: FileRenamer._handle_naming_collision                        *)
(***************************************************************************)

MaxCounter == 999

\* new_name = f"{base_name}_{counter:03d}{extension}"; parent_dir / new_name
NumberedPath(target_path, counter) ==
    Join(Parent(target_path),
         Stem(NameOf(target_path)) \o <<"_">> \o Format03d(counter)
             \o Suffix(NameOf(target_path)))

\* new_name = f"{base_name}_{timestamp}{extension}"; parent_dir / new_name
TimestampPath(target_path, timestamp) ==
    Join(Parent(target_path),
         Stem(NameOf(target_path)) \o <<"_">> \o Str(timestamp)
             \o Suffix(NameOf(target_path)))

\* variant of CollisionEntry that numbers from 0
CollisionEntry_FromZero(exists, target_path) ==
    IF target_path \notin exists
    THEN [pc |-> "done", counter |-> 0, result |-> target_path, probes |-> <<>>]
    ELSE [pc |-> "loop", counter |-> 0, result |-> NoPath, probes |-> <<>>]

\* lines 111-118: return the target if it is free, else enter the loop at 1.
\* probes records the counters whose path was tested with exists().
CollisionEntry(exists, target_path) ==
    IF target_path \notin exists
    THEN [pc |-> "done", counter |-> 0, result |-> target_path, probes |-> <<>>]
    ELSE [pc |-> "loop", counter |-> 1, result |-> NoPath, probes |-> <<>>]

\* variant of CollisionLoopBody that leaves out `counter += 1`
CollisionLoopBody_NoIncrement(exists, target_path, now, st) ==
    LET new_path == NumberedPath(target_path, st.counter)
        probed   == Append(st.probes, st.counter)
    IN  IF new_path \notin exists
        THEN [pc |-> "done", counter |-> st.counter, result |-> new_path,
              probes |-> probed]
        ELSE [pc |-> "loop", counter |-> st.counter, result |-> NoPath,
              probes |-> probed]

\* lines 119-132: one iteration of the while loop
CollisionLoopBody(exists, target_path, now, st) ==
    LET new_path == NumberedPath(target_path, st.counter)
        probed   == Append(st.probes, st.counter)
    IN  IF new_path \notin exists
        THEN [pc |-> "done", counter |-> st.counter, result |-> new_path,
              probes |-> probed]
        ELSE IF st.counter + 1 > MaxCounter
        THEN [pc |-> "done", counter |-> st.counter + 1,
              result |-> TimestampPath(target_path, now), probes |-> probed]
        ELSE [pc |-> "loop", counter |-> st.counter + 1, result |-> NoPath,
              probes |-> probed]

\* the whole call, as the pipeline's handlers make it
RECURSIVE CollisionRun(_, _, _, _)
CollisionRun(exists, target_path, now, st) ==
    IF st.pc = "done" THEN st
    ELSE CollisionRun(exists, target_path, now,
                      CollisionLoopBody(exists, target_path, now, st))

\* variant of HandleNamingCollision that makes no existence check
HandleNamingCollision_NoCheck(exists, target_path, now) == target_path

HandleNamingCollision(exists, target_path, now) ==
    CollisionRun(exists, target_path, now,
                 CollisionEntry(exists, target_path)).result

(***************************************************************************)
(* Text helpers                                                            *)
(***************************************************************************)

\* Python's None where extracted text or a result field is expected (no
\* real string holds a four-character element)
NoneText == <<"None">>

\* characters removed by str.strip() without arguments
Whitespace == {" ", "\t", "\n"}

UpperCase == <<"A", "B", "C", "D", "E", "F", "G", "H", "I", "J", "K", "L", "M",
               "N", "O", "P", "Q", "R", "S", "T", "U", "V", "W", "X", "Y", "Z">>
LowerCase == <<"a", "b", "c", "d", "e", "f", "g", "h", "i", "j", "k", "l", "m",
               "n", "o", "p", "q", "r", "s", "t", "u", "v", "w", "x", "y", "z">>

LowerChar(c) ==
    IF \E i \in 1..Len(UpperCase) : UpperCase[i] = c
    THEN LowerCase[CHOOSE i \in 1..Len(UpperCase) : UpperCase[i] = c]
    ELSE c

\* s.lower()
Lower(s) == [i \in 1..Len(s) |-> LowerChar(s[i])]

\* needle in s
Contains(s, needle) ==
    \E i \in 0..(Len(s) - Len(needle)) :
        \A j \in 1..Len(needle) : s[i + j] = needle[j]

\* the characters of the model in code-point order (str comparison)
CodeOrder == <<"\t", "\n", " ", "\"", "*", ".", "/", "0", "1", "2", "3", "4",
               "5", "6", "7", "8", "9", ":", "<", ">", "?">>
             \o UpperCase \o <<"\\", "_">> \o LowerCase \o <<"|">>

Code(c) == CHOOSE i \in 1..Len(CodeOrder) : CodeOrder[i] = c

\* a < b for str
RECURSIVE StrLess(_, _)
StrLess(a, b) ==
    IF b = <<>> THEN FALSE
    ELSE IF a = <<>> THEN TRUE
    ELSE IF a[1] = b[1] THEN StrLess(Tail(a), Tail(b))
    ELSE Code(a[1]) < Code(b[1])

\* a < b for paths: component by component (PurePath.__lt__)
RECURSIVE PathLess(_, _)
PathLess(a, b) ==
    IF b = <<>> THEN FALSE
    ELSE IF a = <<>> THEN TRUE
    ELSE IF a[1] = b[1] THEN PathLess(Tail(a), Tail(b))
    ELSE StrLess(a[1], b[1])

\* min(paths)
MinPath(paths) == CHOOSE p \in paths : \A q \in paths \ {p} : PathLess(p, q)

\* sorted(paths)
RECURSIVE SortedPaths(_)
SortedFrom(paths, first) == <<first>> \o SortedPaths(paths \ {first})
SortedPaths(paths) ==
    IF paths = {} THEN <<>> ELSE SortedFrom(paths, MinPath(paths))

\* str(path)
RECURSIVE PathStr(_)
PathStr(path) ==
    IF Len(path) = 0 THEN <<>>
    ELSE IF Len(path) = 1 THEN path[1]
    ELSE path[1] \o <<"/">> \o PathStr(Tail(path))

(***************************************************************************)
(* extractors.py                                                           *)
(***************************************************************************)

\* '.jpg', '.jpeg', '.png', '.bmp', '.tiff', '.gif'
ImageExtensions ==
    {<<".", "j", "p", "g">>, <<".", "j", "p", "e", "g">>,
     <<".", "p", "n", "g">>, <<".", "b", "m", "p">>,
     <<".", "t", "i", "f", "f">>, <<".", "g", "i", "f">>}

ExtPdf == <<".", "p", "d", "f">>

\* '.docx', '.doc'
WordExtensions == {<<".", "d", "o", "c", "x">>, <<".", "d", "o", "c">>}

ExtTxt == <<".", "t", "x", "t">>

TypeImage == <<"i", "m", "a", "g", "e">>
TypePdf == <<"p", "d", "f">>
TypeDocx == <<"d", "o", "c", "x">>
TypeText == <<"t", "e", "x", "t">>
TypeUnknown == <<"u", "n", "k", "n", "o", "w", "n">>

\* detect_file_type
DetectFileType(file_path) ==
    LET suffix == Lower(Suffix(NameOf(file_path)))
    IN  IF suffix \in ImageExtensions
        THEN TypeImage
        ELSE IF suffix = ExtPdf THEN TypePdf
        ELSE IF suffix \in WordExtensions THEN TypeDocx
        ELSE IF suffix = ExtTxt THEN TypeText
        ELSE TypeUnknown

\* what a backend (OCR, pdfminer, python-docx, open().read()) yields: the
\* raw text, or BackendFailed for a missing dependency or a raised exception
BackendFailed == <<"BackendFailed">>

\* extract_text_from_image / _pdf / _docx / _txt:
\*   return text.strip() if text else None    (None on failure)
ExtractFrom(raw) ==
    IF raw = BackendFailed THEN NoneText
    ELSE IF raw = <<>> THEN NoneText
    ELSE Strip(raw, Whitespace)

\* extract_text: (file_type, text)
ExtractText(file_path, raw) ==
    LET file_type == DetectFileType(file_path)
    IN  [file_type |-> file_type,
         text |-> IF file_type = TypeUnknown THEN NoneText ELSE ExtractFrom(raw)]

\* Python truthiness of an Optional[str]
Truthy(text) == text # NoneText /\ text # <<>>

(***************************************************************************)
(* classifier.py                                                           *)
(***************************************************************************)

CategoryLimit == 50
CleanFilenameLimit == 80

\* FileClassifier._clean_category
CleanCategory(category) ==
    ReplaceChars(Truncate(Strip(category, Whitespace), CategoryLimit),
                 {"/", "\\"}, "_")

\* FileClassifier._clean_filename
CleanFilename(filename) ==
    LET truncated == Truncate(Strip(filename, Whitespace), CleanFilenameLimit)
        nospace   == ReplaceChars(truncated, {" "}, "_")
        replaced  == ReplaceChars(nospace, ProblematicChars, "_")
        collapsed == CollapseUnderscores(replaced)
    IN  Strip(collapsed, {"_"})

\* The model's reply is a sequence of tokens: an opening brace, a closing
\* brace, a "key": value member of a JSON object, or a word of prose.  A
\* value is a string, or NonString for a JSON number, list, object or null.
NonString == <<"NonString">>
LBrace == [t |-> "{", key |-> "", value |-> <<>>]
RBrace == [t |-> "}", key |-> "", value |-> <<>>]
Word == [t |-> "word", key |-> "", value |-> <<>>]
Member(k, v) == [t |-> "member", key |-> k, value |-> v]

\* response_content.find('{') as a 1-based index, 0 when absent
FindLBrace(content) ==
    IF \E i \in 1..Len(content) : content[i] = LBrace
    THEN CHOOSE i \in 1..Len(content) :
            content[i] = LBrace /\ \A j \in 1..(i - 1) : content[j] # LBrace
    ELSE 0

\* response_content.rfind('}') as a 1-based index, 0 when absent
RFindRBrace(content) ==
    IF \E i \in 1..Len(content) : content[i] = RBrace
    THEN CHOOSE i \in 1..Len(content) :
            content[i] = RBrace
            /\ \A j \in (i + 1)..Len(content) : content[j] # RBrace
    ELSE 0

\* json.loads accepts the slice: one object, members between its braces
JsonObject(slice) ==
    /\ Len(slice) >= 2
    /\ slice[1] = LBrace
    /\ slice[Len(slice)] = RBrace
    /\ \A i \in 2..(Len(slice) - 1) : slice[i].t = "member"

HasKey(slice, k) == \E i \in 1..Len(slice) : slice[i].t = "member" /\ slice[i].key = k

\* result[k]: the last member with that key
ValueOf(slice, k) ==
    slice[CHOOSE i \in 1..Len(slice) :
            /\ slice[i].t = "member" /\ slice[i].key = k
            /\ \A j \in (i + 1)..Len(slice) :
                  ~(slice[j].t = "member" /\ slice[j].key = k)].value

NoClassification == [category |-> NoneText, new_filename |-> NoneText]

\* FileClassifier._parse_response, lines 106-117, on the slice
ParseJson(json_str) ==
    IF ~JsonObject(json_str) THEN NoClassification
    ELSE IF ~HasKey(json_str, "category") \/ ~HasKey(json_str, "new_filename")
    THEN NoClassification
    \* str methods on a value that is no str raise; caught at line 122
    ELSE IF ValueOf(json_str, "category") = NonString
            \/ ValueOf(json_str, "new_filename") = NonString
    THEN NoClassification
    ELSE [category |-> CleanCategory(ValueOf(json_str, "category")),
          new_filename |-> CleanFilename(ValueOf(json_str, "new_filename"))]

\* variant of _parse_response that reads the object ending at the first '}'
ParseResponse_FirstObject(content) ==
    IF FindLBrace(content) = 0 \/ RFindRBrace(content) = 0
    THEN NoClassification
    ELSE ParseJson(SubSeq(content, FindLBrace(content),
                          CHOOSE i \in 1..Len(content) :
                              /\ content[i] = RBrace
                              /\ \A j \in 1..(i - 1) : content[j] # RBrace))

\* FileClassifier._parse_response: the cleaned suggestion, or None
ParseResponse(content) ==
    IF FindLBrace(content) = 0 \/ RFindRBrace(content) = 0
    THEN NoClassification
    ELSE ParseJson(SubSeq(content, FindLBrace(content), RFindRBrace(content)))

\* the completion call raised (transport, authentication, ...)
ApiError == <<[t |-> "error", key |-> "", value |-> <<>>]>>

\* FileClassifier.classify_file
ClassifyFile(filename, extracted_text, reply) ==
    IF ~Truthy(extracted_text) \/ Strip(extracted_text, Whitespace) = <<>>
    THEN NoClassification
    ELSE IF reply = ApiError THEN NoClassification
    ELSE ParseResponse(reply)

(***************************************************************************)
(* The file system.  out is the tree at and under the output root: whether *)
(* the root exists, the directories under it, and the regular files with   *)
(* their content; src is the set of source files present at their original *)
(* path.  A file's content is a record: a copy of a source file, or an     *)
(* error report.                                                           *)
(***************************************************************************)

CopyOf(source_file) ==
    [kind |-> "copy", original |-> source_file, bucket |-> <<>>,
     message |-> <<>>, date |-> 0]

\* the four lines written at organize.py:227-230
ErrorInfo(source_file, error_category, error_message, date) ==
    [kind |-> "error_info", original |-> source_file,
     bucket |-> error_category, message |-> error_message, date |-> date]

NoFiles == [p \in {} |-> CopyOf(<<>>)]

\* create or overwrite the file at path
PutFile(files, path, content) ==
    [q \in (DOMAIN files) \cup {path} |-> IF q = path THEN content ELSE files[q]]

\* Path.exists() for a path at or under the output root
Existing(fs) == fs.dirs \cup DOMAIN fs.files

(***************************************************************************)
(* renamer.py: FileRenamer.__init__ and organize_file                      *)
(***************************************************************************)

\* "out"
OutName ==
    <<"o", "u", "t">>

\* self.output_base_path
OutputBasePath == <<OutName>>

\* "[Errno 13] Permission denied"
PermissionDenied ==
    <<"[", "E", "r", "r", "n", "o", " ", "1", "3", "]", " ", "P", "e", "r",
      "m", "i", "s", "s", "i", "o", "n", " ", "d", "e", "n", "i", "e", "d">>

\* "Error organizing file "
ErrorOrganizingFile ==
    <<"E", "r", "r", "o", "r", " ", "o", "r", "g", "a", "n", "i", "z", "i",
      "n", "g", " ", "f", "i", "l", "e", " ">>

\* "Successfully copied to "
SuccessfullyCopiedTo ==
    <<"S", "u", "c", "c", "e", "s", "s", "f", "u", "l", "l", "y", " ", "c",
      "o", "p", "i", "e", "d", " ", "t", "o", " ">>

\* "Successfully moved to "
SuccessfullyMovedTo ==
    <<"S", "u", "c", "c", "e", "s", "s", "f", "u", "l", "l", "y", " ", "m",
      "o", "v", "e", "d", " ", "t", "o", " ">>

\* target_path.relative_to(self.output_base_path)
RelativeToBase(path) == SubSeq(path, Len(OutputBasePath) + 1, Len(path))

\* FileRenamer.__init__, lines 17-18: mkdir(parents=True, exist_ok=True);
\* fails stands for an OSError of the file system
RenamerInit(fs, fails) ==
    IF fails THEN [raised |-> TRUE, out |-> fs]
    ELSE [raised |-> FALSE, out |-> [fs EXCEPT !.root = TRUE]]

\* organize_file, lines 59-62: except Exception as e
OrganizeFailure(fs, sources, source_file) ==
    [success |-> FALSE, new_path |-> NoPath,
     message |-> ErrorOrganizingFile \o PathStr(source_file)
                    \o <<":", " ">> \o PermissionDenied,
     out |-> fs, src |-> sources]

\* organize_file, lines 48-57: copy or move to the resolved path
CopyOrMove(fs, sources, source_file, copy_mode, io, target_path) ==
    IF io = "copy" \/ source_file \notin sources
    THEN OrganizeFailure(fs, sources, source_file)
    ELSE [success |-> TRUE,
          new_path |-> target_path,
          message |-> (IF copy_mode THEN SuccessfullyCopiedTo
                       ELSE SuccessfullyMovedTo)
                      \o PathStr(RelativeToBase(target_path)),
          out |-> [fs EXCEPT
                     !.files = PutFile(@, target_path, CopyOf(source_file))],
          src |-> IF copy_mode THEN sources ELSE sources \ {source_file}]

\* organize_file, lines 44-46, in the category folder just made
PlaceIn(fs, sources, source_file, copy_mode, io, now, desired_path) ==
    CopyOrMove(fs, sources, source_file, copy_mode, io,
               HandleNamingCollision(Existing(fs), desired_path, now))

\* organize_file, lines 36-45: category_folder.mkdir(parents=True,
\* exist_ok=True), then the desired path
OrganizeInto(fs, sources, source_file, copy_mode, io, now, category_folder, final_filename) ==
    IF io = "mkdir" \/ ~fs.root \/ category_folder \in DOMAIN fs.files
    THEN OrganizeFailure(fs, sources, source_file)
    ELSE PlaceIn([fs EXCEPT !.dirs = @ \cup {category_folder}], sources,
                 source_file, copy_mode, io, now,
                 Join(category_folder, final_filename))

\* FileRenamer.organize_file(source_file, category, new_filename, copy_mode):
\* (success, new_file_path, message) and the file system it leaves.  io is
\* the step at which the file system raises ("mkdir", "copy") or "ok".
OrganizeFile(fs, sources, source_file, category, new_filename, copy_mode, io, now) ==
    OrganizeInto(fs, sources, source_file, copy_mode, io, now,
                 Join(OutputBasePath, SanitizeFolderName(category)),
                 SanitizeFilename(new_filename) \o Suffix(NameOf(source_file)))

(***************************************************************************)
(* organize.py: SmartFileOrganizer                                         *)
(***************************************************************************)

\* Python's None where an error message is expected
NoMessage == <<>>

\* "Could not extract text from "
CouldNotExtractTextFrom ==
    <<"C", "o", "u", "l", "d", " ", "n", "o", "t", " ", "e", "x", "t", "r",
      "a", "c", "t", " ", "t", "e", "x", "t", " ", "f", "r", "o", "m", " ">>

\* " file"
SpaceFile ==
    <<" ", "f", "i", "l", "e">>

\* "Could not classify file content"
CouldNotClassify ==
    <<"C", "o", "u", "l", "d", " ", "n", "o", "t", " ", "c", "l", "a", "s",
      "s", "i", "f", "y", " ", "f", "i", "l", "e", " ", "c", "o", "n", "t",
      "e", "n", "t">>

\* "Unexpected error: "
UnexpectedError ==
    <<"U", "n", "e", "x", "p", "e", "c", "t", "e", "d", " ", "e", "r", "r",
      "o", "r", ":", " ">>

\* "FileRenamer.organize_file() takes from 4 to 5 positional arguments but 6 were given"
TooManyArguments ==
    <<"F", "i", "l", "e", "R", "e", "n", "a", "m", "e", "r", ".", "o", "r",
      "g", "a", "n", "i", "z", "e", "_", "f", "i", "l", "e", "(", ")", " ",
      "t", "a", "k", "e", "s", " ", "f", "r", "o", "m", " ", "4", " ", "t",
      "o", " ", "5", " ", "p", "o", "s", "i", "t", "i", "o", "n", "a", "l",
      " ", "a", "r", "g", "u", "m", "e", "n", "t", "s", " ", "b", "u", "t",
      " ", "6", " ", "w", "e", "r", "e", " ", "g", "i", "v", "e", "n">>

\* "Unknown error"
UnknownError ==
    <<"U", "n", "k", "n", "o", "w", "n", " ", "e", "r", "r", "o", "r">>

\* "DRY_RUN"
DryRunName ==
    <<"D", "R", "Y", "_", "R", "U", "N">>

\* organize.py:154-160 passes file_path, category, new_filename,
\* self.copy_mode and extracted_text
PlacementArguments == 5

\* renamer.py:20-21 takes source_file, category, new_filename, copy_mode
OrganizeFileParameters == 4

\* variant of the call of line 154 in which the source file is gone when
\* the call raises
CallOrganizeFile_SourceGone(fs, sources, source_file, category, new_filename, copy_mode, io, now) ==
    [raised |-> TRUE, exc |-> TooManyArguments,
     success |-> FALSE, new_path |-> NoPath, message |-> NoMessage,
     out |-> fs, src |-> sources \ {source_file}]

\* self.renamer.organize_file(...) as called at line 154: a call with more
\* positional arguments than parameters raises TypeError before the body runs
CallOrganizeFile(fs, sources, source_file, category, new_filename, copy_mode, io, now) ==
    IF PlacementArguments > OrganizeFileParameters
    THEN [raised |-> TRUE, exc |-> TooManyArguments,
          success |-> FALSE, new_path |-> NoPath, message |-> NoMessage,
          out |-> fs, src |-> sources]
    ELSE [raised |-> FALSE, exc |-> NoMessage]
         @@ OrganizeFile(fs, sources, source_file, category, new_filename,
                         copy_mode, io, now)

\* lines 124-132
NewResult(file_path) ==
    [original_name |-> NameOf(file_path),
     original_path |-> file_path,
     success |-> FALSE,
     category |-> NoneText,
     new_filename |-> NoneText,
     new_path |-> NoPath,
     error_message |-> NoMessage]

\* variant of ExtractionFailed that tests `extracted_text is None`
ExtractionFailed_NoneOnly(extracted_text) == extracted_text = NoneText

\* line 138: if not extracted_text
ExtractionFailed(extracted_text) == ~Truthy(extracted_text)

\* variant of OnException that only logs
OnException_LogOnly(result, e) == result

\* lines 172-174: except Exception as e
OnException(result, e) ==
    [result EXCEPT !.error_message = UnexpectedError \o e]

\* line 170: Path("DRY_RUN") / category / f"{new_filename}{file_path.suffix}"
DryRunPath(file_path, classification) ==
    Join(Join(<<DryRunName>>, classification.category),
         classification.new_filename \o Suffix(NameOf(file_path)))

\* what _process_single_file did: its result, the steps it invoked with what
\* they returned, and the file system it leaves
Processed(result, steps, text, classification, io, fs, sources) ==
    [result |-> result, steps |-> steps, text |-> text,
     classification |-> classification, io |-> io, out |-> fs, src |-> sources]

\* lines 162-166, with what organize_file returned or raised
AfterOrganize(classified, io, text, classification, call) ==
    Processed(IF call.raised THEN OnException(classified, call.exc)
              ELSE IF call.success
              THEN [classified EXCEPT !.success = TRUE,
                                      !.new_path = call.new_path]
              ELSE [classified EXCEPT !.error_message = call.message],
              <<"extract", "classify", "place">>, text, classification,
              IF call.raised THEN "ok" ELSE io, call.out, call.src)

\* lines 152-170 (step 3), with the result that holds the suggestion
Organize(file_path, classified, io, dry_run, copy_mode, fs, sources, now, text, classification) ==
    IF ~dry_run
    THEN AfterOrganize(classified, io, text, classification,
                       CallOrganizeFile(fs, sources, file_path,
                                        classification.category,
                                        classification.new_filename,
                                        copy_mode, io, now))
    ELSE Processed([classified EXCEPT
                      !.success = TRUE,
                      !.new_path = DryRunPath(file_path, classification)],
                   <<"extract", "classify">>, text, classification, "ok",
                   fs, sources)

\* variant of AfterClassify that asks the classifier a second time
AfterClassify_Retry(file_path, io, dry_run, copy_mode, fs, sources, now, text, classification) ==
    IF classification = NoClassification
    THEN Processed([NewResult(file_path) EXCEPT
                      !.error_message = CouldNotClassify],
                   <<"extract", "classify", "classify">>, text,
                   NoClassification, "ok", fs, sources)
    ELSE Organize(file_path,
                  [NewResult(file_path) EXCEPT
                     !.category = classification.category,
                     !.new_filename = classification.new_filename],
                  io, dry_run, copy_mode, fs, sources, now, text,
                  classification)

\* lines 145-150 (step 2), with what classify_file returned
AfterClassify(file_path, io, dry_run, copy_mode, fs, sources, now, text, classification) ==
    IF classification = NoClassification
    THEN Processed([NewResult(file_path) EXCEPT
                      !.error_message = CouldNotClassify],
                   <<"extract", "classify">>, text, NoClassification, "ok",
                   fs, sources)
    ELSE Organize(file_path,
                  [NewResult(file_path) EXCEPT
                     !.category = classification.category,
                     !.new_filename = classification.new_filename],
                  io, dry_run, copy_mode, fs, sources, now, text,
                  classification)

\* lines 138-143 (step 1), with what extract_text returned
AfterExtract(file_path, reply, io, dry_run, copy_mode, fs, sources, now, ex) ==
    IF ExtractionFailed(ex.text)
    THEN Processed([NewResult(file_path) EXCEPT
                      !.error_message =
                          CouldNotExtractTextFrom \o ex.file_type \o SpaceFile],
                   <<"extract">>, ex.text, NoClassification, "ok", fs, sources)
    ELSE AfterClassify(file_path, io, dry_run, copy_mode, fs, sources, now,
                       ex.text,
                       ClassifyFile(NameOf(file_path), ex.text, reply))

\* _process_single_file
ProcessSingleFile(file_path, raw, reply, io, dry_run, copy_mode, fs, sources, now) ==
    AfterExtract(file_path, reply, io, dry_run, copy_mode, fs, sources, now,
                 ExtractText(file_path, raw))

\* _find_files_to_process
SupportedExtensions ==
    ImageExtensions \cup {ExtPdf} \cup WordExtensions \cup {ExtTxt}

FindFilesToProcess(tree) ==
    SortedPaths({f \in tree : Lower(Suffix(NameOf(f))) \in SupportedExtensions})

\* "_Errors"
ErrorsName ==
    <<"_", "E", "r", "r", "o", "r", "s">>

\* "text_extraction_failed"
TextExtractionFailed ==
    <<"t", "e", "x", "t", "_", "e", "x", "t", "r", "a", "c", "t", "i", "o",
      "n", "_", "f", "a", "i", "l", "e", "d">>

\* "classification_failed"
ClassificationFailed ==
    <<"c", "l", "a", "s", "s", "i", "f", "i", "c", "a", "t", "i", "o", "n",
      "_", "f", "a", "i", "l", "e", "d">>

\* "unsupported_format"
UnsupportedFormat ==
    <<"u", "n", "s", "u", "p", "p", "o", "r", "t", "e", "d", "_", "f", "o",
      "r", "m", "a", "t">>

\* "processing_error"
ProcessingError ==
    <<"p", "r", "o", "c", "e", "s", "s", "i", "n", "g", "_", "e", "r", "r",
      "o", "r">>

\* "extract text"
NeedleExtractText ==
    <<"e", "x", "t", "r", "a", "c", "t", " ", "t", "e", "x", "t">>

\* "classify"
NeedleClassify ==
    <<"c", "l", "a", "s", "s", "i", "f", "y">>

\* "unsupported"
NeedleUnsupported ==
    <<"u", "n", "s", "u", "p", "p", "o", "r", "t", "e", "d">>

\* ".error_info.txt"
ErrorInfoSuffix ==
    <<".", "e", "r", "r", "o", "r", "_", "i", "n", "f", "o", ".", "t", "x",
      "t">>

\* lines 202-209
ErrorCategory(error_message) ==
    IF Contains(Lower(error_message), NeedleExtractText) THEN TextExtractionFailed
    ELSE IF Contains(Lower(error_message), NeedleClassify) THEN ClassificationFailed
    ELSE IF Contains(Lower(error_message), NeedleUnsupported) THEN UnsupportedFormat
    ELSE ProcessingError

\* line 186
ErrorsFolder == Join(OutputBasePath, ErrorsName)

\* line 180
FailedFiles(processed) == SelectSeq(processed, LAMBDA f : ~f.success)

\* PurePath.with_suffix
WithSuffix(path, suffix) ==
    LET name == NameOf(path)
        old  == Suffix(name)
    IN  Join(Parent(path), SubSeq(name, 1, Len(name) - Len(old)) \o suffix)

\* what one iteration of the triage loop did
Triaged(raised, logged, fs) == [raised |-> raised, logged |-> logged, out |-> fs]

\* lines 224-230: the error report beside the copy
WriteErrorInfo(fs, source_file, error_category, error_message, io, date, error_info_path) ==
    IF io = "sidecar" \/ error_info_path \in fs.dirs
    THEN Triaged(FALSE, TRUE, fs)
    ELSE Triaged(FALSE, FALSE,
                 [fs EXCEPT !.files =
                    PutFile(@, error_info_path,
                            ErrorInfo(source_file, error_category,
                                      error_message, date))])

\* lines 222-225: copy to the resolved path, name the report
CopyFailedFile(fs, sources, source_file, error_category, error_message, io, date, target_path) ==
    IF io \in {"resolve", "copy"} \/ source_file \notin sources
    THEN Triaged(FALSE, TRUE, fs)
    ELSE WriteErrorInfo([fs EXCEPT !.files =
                           PutFile(@, target_path, CopyOf(source_file))],
                        source_file, error_category, error_message, io, date,
                        WithSuffix(target_path,
                                   Suffix(NameOf(target_path)) \o ErrorInfoSuffix))

\* lines 216-221, in the error subfolder just made
TriageIn(fs, sources, source_file, copy_mode, error_category, error_message, io, now, date, error_subfolder) ==
    IF ~copy_mode THEN Triaged(FALSE, FALSE, fs)
    ELSE CopyFailedFile(fs, sources, source_file, error_category,
                        error_message, io, date,
                        HandleNamingCollision(
                            Existing(fs),
                            Join(error_subfolder, NameOf(source_file)), now))

\* lines 211-213: error_subfolder.mkdir(exist_ok=True), outside the try
TriageInto(fs, sources, source_file, copy_mode, error_category, error_message, io, now, date, error_subfolder) ==
    IF io = "mkdir" \/ ErrorsFolder \notin fs.dirs
       \/ error_subfolder \in DOMAIN fs.files
    THEN Triaged(TRUE, FALSE, fs)
    ELSE TriageIn([fs EXCEPT !.dirs = @ \cup {error_subfolder}], sources,
                  source_file, copy_mode, error_category, error_message, io,
                  now, date, error_subfolder)

\* lines 201-212, with the message of line 198
TriageMessage(fs, sources, source_file, copy_mode, error_message, io, now, date) ==
    TriageInto(fs, sources, source_file, copy_mode,
               ErrorCategory(error_message), error_message, io, now, date,
               Join(ErrorsFolder, ErrorCategory(error_message)))

\* lines 197-233 for one failed file.  io is the step at which the file
\* system raises ("mkdir", "resolve", "copy", "sidecar") or "ok"; an
\* exception outside the try block leaves _organize_failed_files.
OrganizeFailedFile(fs, sources, file_info, copy_mode, io, now, date) ==
    TriageMessage(fs, sources, file_info.original_path, copy_mode,
                  IF file_info.error_message = NoMessage
                  THEN UnknownError ELSE file_info.error_message,
                  io, now, date)

(***************************************************************************)
(* Bounds of the checked instances                                         *)
(***************************************************************************)

MaxHead == 1            \* characters before the padding of a sanitizer input
MaxTail == 2            \* characters after it
MaxPrefix == 2          \* taken counters 1..k, k small
MaxGap == 1             \* taken counters 1..k, k within MaxGap of MaxCounter
NowSeconds == 1700000000    \* int(time.time()) at the fallback
MaxFiles == 2           \* supported files in the input folder
MaxReply == 4           \* parts of a reply of the model

(***************************************************************************)
(* Sanitizer calls on drawn inputs                                         *)
(***************************************************************************)

SanAlphabet == {"a", "_", ".", " ", "/", ":"}

RECURSIVE SeqsUpTo(_, _)
SeqsUpTo(S, n) ==
    IF n = 0 THEN {<<>>}
    ELSE LET shorter == SeqsUpTo(S, n - 1)
         IN  shorter \cup {Append(s, c) : s \in shorter, c \in S}

Padding(n) == [i \in 1..n |-> "a"]

\* lengths of padding around the length caps of _sanitize_folder_name and
\* _sanitize_filename
PadLengths ==
    {0} \cup ((FolderNameLimit - 2)..(FolderNameLimit + 1))
        \cup ((FilenameLimit - 2)..(FilenameLimit + 1))

SanInputs ==
    {h \o Padding(n) \o t :
        h \in SeqsUpTo(SanAlphabet, MaxHead),
        n \in PadLengths,
        t \in SeqsUpTo(SanAlphabet, MaxTail)}

NotCalled == <<"NotCalled">>

colIdle == [pc |-> "idle"]

placeIdle == [pc |-> "idle"]

clsIdle == [pc |-> "idle"]

pipeVars ==
    <<pc, mode, input, out, src, files_to_process, file_idx, processed_files, failed_idx, hist,
      faults, out0, prev>>

EmptyTree == [root |-> FALSE, dirs |-> {}, files |-> NoFiles]

\* no earlier run
NoPrev == [run |-> 1, processed_files |-> <<>>, hist |-> <<>>, out |-> EmptyTree]

\* no run of the organizer
PipelineIdle ==
    /\ pc = "idle"
    /\ mode = [dry_run |-> FALSE, copy_mode |-> TRUE]
    /\ input = [valid |-> FALSE, tree |-> {}]
    /\ out = EmptyTree
    /\ out0 = EmptyTree
    /\ src = {}
    /\ files_to_process = <<>>
    /\ file_idx = 1
    /\ processed_files = <<>>
    /\ failed_idx = 1
    /\ hist = <<>>
    /\ faults = {}
    /\ prev = NoPrev

SanInit ==
    /\ PipelineIdle
    /\ sanIn \in SanInputs
    /\ sanOut = [op |-> "none", value |-> NotCalled]
    /\ cls = clsIdle
    /\ col = colIdle
    /\ place = placeIdle

CallSanitizeFilename ==
    /\ sanOut.op = "none"
    /\ sanOut' = [op |-> "filename", value |-> SanitizeFilename(sanIn)]
    /\ UNCHANGED <<sanIn, col, place, pipeVars, cls>>

CallSanitizeFolderName ==
    /\ sanOut.op = "none"
    /\ sanOut' = [op |-> "folder", value |-> SanitizeFolderName(sanIn)]
    /\ UNCHANGED <<sanIn, col, place, pipeVars, cls>>

SanNext == CallSanitizeFilename \/ CallSanitizeFolderName

vars == <<pipeVars, sanIn, sanOut, col, place, cls>>

SpecSan == SanInit /\ [][SanNext]_vars

(***************************************************************************)
(* A run of the organizer: construction, organize_folder, triage           *)
(***************************************************************************)

\* in/a.txt, in/a/a.txt, in/b.PDF and in/n.md
InputUniverse ==
    {<<<<"i", "n">>, <<"a", ".", "t", "x", "t">>>>,
     <<<<"i", "n">>, <<"a">>, <<"a", ".", "t", "x", "t">>>>,
     <<<<"i", "n">>, <<"b", ".", "P", "D", "F">>>>,
     <<<<"i", "n">>, <<"n", ".", "m", "d">>>>}

Trees ==
    {tree \in SUBSET InputUniverse : Len(FindFilesToProcess(tree)) <= MaxFiles}

\* what the backend reads from a file
RawTexts == {BackendFailed, <<>>, <<" ", "\n">>, <<" ", "h", "i", "\n">>}

\* "Uber Receipts"
UberReceipts ==
    <<"U", "b", "e", "r", " ", "R", "e", "c", "e", "i", "p", "t", "s">>

\* "uber_ride_receipt_2024-01-15"
UberRideReceipt ==
    <<"u", "b", "e", "r", "_", "r", "i", "d", "e", "_", "r", "e", "c", "e",
      "i", "p", "t", "_", "2", "0", "2", "4", "-", "0", "1", "-", "1", "5">>

\* what the completion call returns: an error, prose without an object, an
\* object without new_filename, the suggestion of the prompt's example, and
\* {"new_filename": "x  y?.", "category": ". a:b "}
Replies ==
    {ApiError,
     <<Word, Word>>,
     <<Word, LBrace, Member("category", UberReceipts), RBrace>>,
     <<Word, LBrace, Member("category", UberReceipts),
       Member("new_filename", UberRideReceipt), RBrace, Word>>,
     <<LBrace, Member("new_filename", <<"x", " ", " ", "y", "?", ".">>),
       Member("category", <<".", " ", "a", ":", "b", " ">>), RBrace>>}

\* where the file system may raise during one handler
PlacementFaults == {"ok", "mkdir", "copy"}
TriageFaults == {"ok", "mkdir", "resolve", "copy", "sidecar"}

Init ==
    /\ pc = "new"
    /\ mode \in [dry_run : BOOLEAN, copy_mode : BOOLEAN]
    /\ input \in {[valid |-> v, tree |-> tree] :
                    v \in BOOLEAN, tree \in Trees}
    /\ input.valid \/ input.tree = {}
    /\ out \in {[root |-> r, dirs |-> {}, files |-> NoFiles] : r \in BOOLEAN}
    /\ out0 = out
    /\ src = input.tree
    /\ files_to_process = <<>>
    /\ file_idx = 1
    /\ processed_files = <<>>
    /\ failed_idx = 1
    /\ hist = <<>>
    /\ faults = {}
    /\ prev = NoPrev
    /\ sanIn = <<>>
    /\ sanOut = [op |-> "none", value |-> NotCalled]
    /\ cls = clsIdle
    /\ col = colIdle
    /\ place = placeIdle

\* SmartFileOrganizer.__init__ (lines 44-49): FileClassifier(api_key)
\* raises ImportError without the openai package; FileRenamer(output_path)
\* creates the output root
Construct ==
    /\ pc = "new"
    /\ \E openai \in BOOLEAN, fails \in BOOLEAN :
          LET r == RenamerInit(out, fails)
          IN  /\ pc' = IF ~openai \/ r.raised THEN "init_raised" ELSE "ready"
              /\ out' = IF openai THEN r.out ELSE out
              /\ faults' = IF openai /\ r.raised
                           THEN faults \cup {"init"} ELSE faults
    /\ UNCHANGED <<mode, input, src, files_to_process, file_idx, processed_files,
                   failed_idx,
                   hist, out0, sanIn, sanOut, col, place, prev, cls>>

\* organize_folder, lines 58-70: validate the input folder, find the files
OrganizeFolder ==
    /\ pc = "ready"
    /\ IF ~input.valid
       THEN /\ pc' = "input_raised"
            /\ UNCHANGED files_to_process
       ELSE /\ files_to_process' = FindFilesToProcess(input.tree)
            /\ pc' = IF files_to_process' = <<>> THEN "returned" ELSE "loop"
    /\ UNCHANGED <<mode, input, out, src, file_idx, processed_files, failed_idx,
                   hist, faults,
                   out0, sanIn, sanOut, col, place, prev, cls>>

\* variant of AppendResult that keeps only the files that were organized
AppendResult_SuccessOnly(processed, result) ==
    IF result.success THEN Append(processed, result) ELSE processed

\* lines 95-96: processed_files.append(result)
AppendResult(processed, result) == Append(processed, result)

\* in a repeated run the extractor and the classifier give for each file
\* what they gave in the run before
SameAsBefore(r) ==
    /\ r.text = prev.hist[file_idx].text
    /\ r.classification = prev.hist[file_idx].classification

\* lines 95-96 and 105-106 with the result r of _process_single_file
RecordResult(r) ==
    /\ IF prev.run = 1 THEN TRUE ELSE SameAsBefore(r)
    /\ processed_files' = AppendResult(processed_files, r.result)
    /\ hist' = Append(hist, [file |-> r.result.original_path,
                             steps |-> r.steps, text |-> r.text,
                             classification |-> r.classification,
                             io |-> r.io])
    /\ out' = r.out
    /\ src' = r.src
    /\ faults' = IF r.io = "ok" THEN faults ELSE faults \cup {"place"}

\* organize_folder, lines 94-106: one iteration of the loop over
\* files_to_process; after the last one, triage unless dry_run
ProcessNextFile ==
    /\ pc = "loop"
    /\ \E raw \in RawTexts, reply \in Replies, io \in PlacementFaults :
          RecordResult(ProcessSingleFile(files_to_process[file_idx], raw,
                                         reply, io, mode.dry_run,
                                         mode.copy_mode, out, src, NowSeconds))
    /\ file_idx' = file_idx + 1
    /\ pc' = IF file_idx < Len(files_to_process) THEN "loop"
             ELSE IF mode.dry_run THEN "returned" ELSE "triage"
    /\ UNCHANGED <<mode, input, files_to_process, failed_idx, out0, sanIn,
                   sanOut, col, place, prev, cls>>

\* _organize_failed_files, lines 180-187: nothing to do without failures;
\* errors_folder.mkdir(exist_ok=True) is outside any try block
TriageEnter ==
    /\ pc = "triage"
    /\ IF FailedFiles(processed_files) = <<>>
       THEN /\ pc' = "returned"
            /\ UNCHANGED <<out, faults>>
       ELSE \E fails \in BOOLEAN :
              IF fails \/ ~out.root \/ ErrorsFolder \in DOMAIN out.files
              THEN /\ pc' = "triage_raised"
                   /\ faults' = faults \cup {"triage"}
                   /\ UNCHANGED out
              ELSE /\ pc' = "triage_loop"
                   /\ out' = [out EXCEPT !.dirs = @ \cup {ErrorsFolder}]
                   /\ UNCHANGED faults
    /\ UNCHANGED <<mode, input, src, files_to_process, file_idx, processed_files,
                   failed_idx,
                   hist, out0, sanIn, sanOut, col, place, prev, cls>>

\* the loop of lines 197-233 moves on, or the exception leaves it
TriageStep(r, failed_count) ==
    /\ out' = r.out
    /\ faults' = IF r.raised \/ r.logged THEN faults \cup {"triage"} ELSE faults
    /\ pc' = IF r.raised THEN "triage_raised"
             ELSE IF failed_idx < failed_count THEN "triage_loop"
             ELSE "returned"
    /\ failed_idx' = IF r.raised THEN failed_idx ELSE failed_idx + 1

\* _organize_failed_files, lines 197-233: one iteration of the loop over
\* failed_files; the call returns after the last one
TriageNextFile ==
    /\ pc = "triage_loop"
    /\ \E io \in TriageFaults, date \in {NowSeconds, NowSeconds + 1} :
          TriageStep(OrganizeFailedFile(out, src,
                                        FailedFiles(processed_files)[failed_idx],
                                        mode.copy_mode, io, NowSeconds, date),
                     Len(FailedFiles(processed_files)))
    /\ UNCHANGED <<mode, input, src, files_to_process, file_idx, processed_files,
                   hist, out0, sanIn, sanOut, col, place, prev, cls>>

Next ==
    \/ Construct
    \/ OrganizeFolder
    \/ ProcessNextFile
    \/ TriageEnter
    \/ TriageNextFile

Spec == Init /\ [][Next]_vars

\* a second run of organize_folder in copy mode, by a new organizer, on the
\* unchanged input folder and a fresh empty output folder, after a run in
\* which the file system raised nothing
RunAgain ==
    /\ pc = "returned"
    /\ prev.run = 1
    /\ ~mode.dry_run
    /\ mode.copy_mode
    /\ faults = {}
    /\ prev' = [run |-> 2, processed_files |-> processed_files,
                hist |-> hist, out |-> out]
    /\ pc' = "new"
    /\ out' = [root |-> TRUE, dirs |-> {}, files |-> NoFiles]
    /\ out0' = out'
    /\ files_to_process' = <<>>
    /\ file_idx' = 1
    /\ processed_files' = <<>>
    /\ failed_idx' = 1
    /\ hist' = <<>>
    /\ UNCHANGED <<mode, input, src, faults, sanIn, sanOut, col, place, cls>>

NextTwice == Next \/ RunAgain

SpecTwice == Init /\ [][NextTwice]_vars


(***************************************************************************)
(* Claims about the sanitizers                                             *)
(***************************************************************************)

EdgeChars == {"_", ".", " "}

CleanStem(v) ==
    /\ \A i \in 1..Len(v) : v[i] \notin ProblematicChars
    /\ ~HasDoubleUnderscore(v)
    /\ Len(v) > 0 => (v[1] \notin EdgeChars /\ v[Len(v)] \notin EdgeChars)

\* cleaning leaves nothing: every character is one that is replaced by '_'
\* or stripped
CleansToNothing(s) ==
    \A i \in 1..Len(s) : s[i] \in ProblematicChars \cup EdgeChars

(***************************************************************************)
(* C8: _sanitize_filename(s), for every s of any length, has none of       *)
(* / \ : * ? " < > |, no "__", does not start or end with '_', '.' or ' ', *)
(* and is exactly "unnamed_file" when cleaning leaves nothing.             *)
(***************************************************************************)
C8_SanitizedStemIsClean ==
    sanOut.op = "filename" =>
        /\ CleanStem(sanOut.value)
        /\ CleansToNothing(sanIn) => sanOut.value = UnnamedFile

\* the same statement for inputs of at most FilenameLimit characters
C8_ShortInputsClean ==
    (sanOut.op = "filename" /\ Len(sanIn) <= FilenameLimit) =>
        /\ CleanStem(sanOut.value)
        /\ CleansToNothing(sanIn) => sanOut.value = UnnamedFile

(***************************************************************************)
(* Collision resolver calls on drawn directory contents                    *)
(***************************************************************************)

ReportPdf == <<"r", "e", "p", "o", "r", "t", ".", "p", "d", "f">>
DottedTxt == <<"a", ".", "b", ".", "t", "x", "t">>
NoExtension == <<"n", "o", "t", "e", "s">>
\* r.p, given relative to the working directory
ShortName == <<"r", ".", "p">>

ColTargets == {<<OutName, ReportPdf>>, <<OutName, DottedTxt>>,
               <<OutName, NoExtension>>, <<ShortName>>}

\* the directory entry stem_NNN.ext of a target, NNN the three digits of n
ThreeDigits(n) ==
    <<DigitChar(n \div 100), DigitChar((n \div 10) % 10), DigitChar(n % 10)>>

VariantOf(target, n) ==
    Join(Parent(target),
         Stem(NameOf(target)) \o <<"_">> \o ThreeDigits(n)
             \o Suffix(NameOf(target)))

\* counters 1..k taken, k near 0 or near MaxCounter
TakenUpTo == (0..MaxPrefix) \cup ((MaxCounter - MaxGap)..MaxCounter)

ColInit ==
    /\ PipelineIdle
    /\ place = placeIdle
    /\ sanIn = <<>>
    /\ sanOut = [op |-> "none", value |-> NotCalled]
    /\ cls = clsIdle
    /\ \E target \in ColTargets, k \in TakenUpTo, hole \in 0..MaxPrefix,
          targetExists \in BOOLEAN, fallbackExists \in BOOLEAN :
          \* the long directories are drawn for one target only
          /\ k > MaxPrefix => target = <<ShortName>>
          /\ col = [pc |-> "call",
                    target |-> target,
                    now |-> NowSeconds,
                    exists |->
                        {VariantOf(target, n) : n \in (1..k) \ {hole}}
                        \cup (IF targetExists THEN {target} ELSE {})
                        \cup (IF fallbackExists
                              THEN {TimestampPath(target, NowSeconds)}
                              ELSE {}),
                    counter |-> 0,
                    result |-> NoPath,
                    probes |-> <<>>]

ColUpdate(st) ==
    [col EXCEPT !.pc = st.pc, !.counter = st.counter, !.result = st.result,
                !.probes = st.probes]

\* if not target_path.exists(): return target_path; ...; counter = 1
ColEnter ==
    /\ col.pc = "call"
    /\ col' = ColUpdate(CollisionEntry(col.exists, col.target))
    /\ UNCHANGED <<sanIn, sanOut, place, pipeVars, cls>>

\* one iteration of `while True`
ColIterate ==
    /\ col.pc = "loop"
    /\ col' = ColUpdate(CollisionLoopBody(col.exists, col.target, col.now, col))
    /\ UNCHANGED <<sanIn, sanOut, place, pipeVars, cls>>

ColNext == ColEnter \/ ColIterate

SpecCol == ColInit /\ [][ColNext]_vars

SpecColFair == ColInit /\ [][ColNext]_vars /\ WF_vars(ColNext)

FreeCounters == {n \in 1..MaxCounter : VariantOf(col.target, n) \notin col.exists}

SmallestFree == CHOOSE n \in FreeCounters : \A m \in FreeCounters : n <= m

Report001Pdf ==
    <<"r", "e", "p", "o", "r", "t", "_", "0", "0", "1", ".", "p", "d", "f">>

(***************************************************************************)
(* C9: _handle_naming_collision returns the desired path unchanged when it *)
(* does not exist; otherwise, when one of stem_001.ext .. stem_999.ext is  *)
(* free, it returns stem_NNN.ext for the smallest free N, a path that does *)
(* not exist; with only report.pdf present, out/report.pdf resolves to     *)
(* out/report_001.pdf.                                                     *)
(***************************************************************************)
C9_SmallestFreeVariant ==
    col.pc = "done" =>
        /\ col.target \notin col.exists => col.result = col.target
        /\ (col.target \in col.exists /\ FreeCounters # {}) =>
              /\ col.result = VariantOf(col.target, SmallestFree)
              /\ col.result \notin col.exists
        /\ (col.target = <<OutName, ReportPdf>> /\ col.exists = {col.target}) =>
              col.result = <<OutName, Report001Pdf>>

\* a taken target whose first two variants are taken too resolves to _003
C9_Witness ==
    /\ col.pc = "done"
    /\ col.target \in col.exists
    /\ VariantOf(col.target, 1) \in col.exists
    /\ VariantOf(col.target, 2) \in col.exists
    /\ col.result = VariantOf(col.target, 3)

\* the probes so far are the counters 1, 2, ... in order, none above
\* MaxCounter; a call that found every counter taken made all of them and
\* returned the timestamp name
C10_ProbesBounded ==
    /\ col.pc \in {"loop", "done"} =>
          /\ Len(col.probes) <= MaxCounter
          /\ \A i \in 1..Len(col.probes) : col.probes[i] = i
    /\ (col.pc = "done" /\ col.target \in col.exists /\ FreeCounters = {}) =>
          /\ col.result = TimestampPath(col.target, col.now)
          /\ Len(col.probes) = MaxCounter

(***************************************************************************)
(* C10: _handle_naming_collision terminates: it probes the counters        *)
(* 1, 2, ... each once and none above 999, and when the desired path and   *)
(* all of stem_001.ext .. stem_999.ext exist it returns                    *)
(* stem_<epoch seconds>.ext whether or not that path exists.               *)
(***************************************************************************)
C10_TerminatesWithFallback ==
    [](C10_ProbesBounded) /\ <>(col.pc = "done")

\* every counter taken and the fallback name taken as well: still returned
C10_Witness ==
    /\ col.pc = "done"
    /\ col.target \in col.exists
    /\ FreeCounters = {}
    /\ col.result \in col.exists
    /\ col.result = TimestampPath(col.target, col.now)

(***************************************************************************)
(* Claims about a run of the organizer                                     *)
(***************************************************************************)

Results == 1..Len(processed_files)

\* the desired path of the placement step, before any collision suffix
DesiredPath(result) ==
    Join(Join(OutputBasePath, SanitizeFolderName(result.category)),
         SanitizeFilename(result.new_filename)
             \o Suffix(NameOf(result.original_path)))

\* extraction and classification of the k-th file both succeeded and the
\* file system raised nothing while it was placed
ReadyToPlace(k) ==
    /\ Truthy(hist[k].text)
    /\ hist[k].classification # NoClassification
    /\ hist[k].io = "ok"

(***************************************************************************)
(* C1: in a run that is not a dry run, a file whose extraction gives       *)
(* non-blank text, whose classification gives a suggestion and whose       *)
(* copy/move meets no I/O error ends PLACED: success is true, new_path is  *)
(* outputRoot / sanitized category / (sanitized name + extension) and the  *)
(* file exists there.                                                      *)
(***************************************************************************)
C1_ClassifiedFileIsPlaced ==
    \A k \in Results :
        (~mode.dry_run /\ ReadyToPlace(k)) =>
            /\ processed_files[k].success
            /\ processed_files[k].new_path = DesiredPath(processed_files[k])
            /\ processed_files[k].new_path \in DOMAIN out.files

(***************************************************************************)
(* C2: every result of organize_folder is fully successful (new_path set,  *)
(* error_message absent) or fully failed (new_path absent, error_message   *)
(* present and not empty), in every mode and after any failure.            *)
(***************************************************************************)
C2_OutcomeShapes ==
    \A k \in Results :
        LET f == processed_files[k]
        IN  \/ f.success /\ f.new_path # NoPath /\ f.error_message = NoMessage
            \/ ~f.success /\ f.new_path = NoPath /\ f.error_message # NoMessage

\* a returned list that holds a success and a failure
C2_Witness ==
    /\ pc = "returned"
    /\ \E k \in Results : processed_files[k].success
    /\ \E k \in Results : ~processed_files[k].success

\* "Could not extract text"
CouldNotExtractText ==
    <<"C", "o", "u", "l", "d", " ", "n", "o", "t", " ", "e", "x", "t", "r",
      "a", "c", "t", " ", "t", "e", "x", "t">>

\* path is at or under folder
Under(path, folder) ==
    Len(path) >= Len(folder) /\ SubSeq(path, 1, Len(folder)) = folder

(***************************************************************************)
(* C3: the pipeline fails closed.  When extraction returns no text, the    *)
(* classifier and the placement step are not invoked; when classification  *)
(* returns nothing, the placement step is not invoked; both leave a failed *)
(* result with a descriptive message.  So a source file is copied or moved *)
(* into a category folder only after its extraction and its                *)
(* classification succeeded.                                               *)
(***************************************************************************)
C3_FailsClosed ==
    /\ Len(hist) = Len(processed_files)
    /\ \A k \in Results :
          LET f == processed_files[k]
              h == hist[k]
          IN  /\ ~Truthy(h.text) =>
                    /\ h.steps = <<"extract">>
                    /\ ~f.success
                    /\ Contains(f.error_message, CouldNotExtractText)
              /\ (Truthy(h.text) /\ h.classification = NoClassification) =>
                    /\ h.steps = <<"extract", "classify">>
                    /\ ~f.success
                    /\ f.error_message = CouldNotClassify
    /\ \A p \in DOMAIN out.files :
          (out.files[p].kind = "copy" /\ ~Under(p, ErrorsFolder)) =>
              \E k \in Results :
                  /\ hist[k].file = out.files[p].original
                  /\ Truthy(hist[k].text)
                  /\ hist[k].classification # NoClassification

\* a file whose text is empty after stripping stopped after extraction,
\* another one went on to be classified and stopped there
C3_Witness ==
    /\ pc = "returned"
    /\ \E k \in Results :
          /\ hist[k].text = <<>>
          /\ hist[k].steps = <<"extract">>
          /\ ~processed_files[k].success
    /\ \E k \in Results :
          /\ Truthy(hist[k].text)
          /\ hist[k].steps = <<"extract", "classify">>
          /\ ~processed_files[k].success

(***************************************************************************)
(* C4: for a valid input folder organize_folder holds one result per       *)
(* discovered file, in discovery order, whatever happens to single files:  *)
(* a failure of a file in extraction, classification or placement (an      *)
(* exception included) is that file's error_message and the next files are *)
(* still processed.                                                        *)
(***************************************************************************)
InOrder(n) ==
    /\ Len(processed_files) = n
    /\ \A k \in 1..n :
          /\ processed_files[k].original_path = files_to_process[k]
          /\ ~processed_files[k].success =>
                processed_files[k].error_message # NoMessage

C4_OneOutcomePerFile ==
    /\ pc = "loop" => InOrder(file_idx - 1)
    /\ pc \in {"triage", "triage_loop", "triage_raised", "returned"} =>
          InOrder(Len(files_to_process))

\* the first of two files met the exception of the placement step and the
\* second was processed all the same
C4_Witness ==
    /\ pc = "returned"
    /\ Len(files_to_process) = 2
    /\ Len(processed_files) = 2
    /\ hist[1].steps = <<"extract", "classify", "place">>
    /\ ~processed_files[1].success
    /\ processed_files[2].original_path = files_to_process[2]

(***************************************************************************)
(* C5: a dry run creates, moves and deletes nothing at or under the output *)
(* root, from the construction of SmartFileOrganizer to the return of      *)
(* organize_folder, and moves or deletes no source file.                   *)
(***************************************************************************)
C5_DryRunTouchesNothing ==
    mode.dry_run => (out = out0 /\ src = input.tree)

\* the error report of a failed result, beside its copy at path
ReportedAt(path, f) ==
    LET report == Join(Parent(path), NameOf(path) \o ErrorInfoSuffix)
    IN  /\ report \in DOMAIN out.files
        /\ out.files[report].kind = "error_info"
        /\ out.files[report].original = f.original_path
        /\ out.files[report].bucket = NameOf(Parent(path))
        /\ out.files[report].message = f.error_message

\* a failed result has a copy of its file under _Errors/<bucket>/, with a
\* report, and its original is still in place
TriagedTo(f, bucket) ==
    /\ f.original_path \in src
    /\ \E path \in DOMAIN out.files :
          /\ Parent(path) = Join(ErrorsFolder, bucket)
          /\ out.files[path] = CopyOf(f.original_path)
          /\ ReportedAt(path, f)

(***************************************************************************)
(* C6: after organize_folder returns from a run that is not a dry run, in  *)
(* copy mode or in move mode, every failed result has a copy of its        *)
(* original file under outputRoot/_Errors/<bucket>/ with an error report   *)
(* beside it, and the original is still in place; a file whose             *)
(* classification failed has its copy under _Errors/classification_failed. *)
(* Stated for the runs in which the file system raised no error.           *)
(***************************************************************************)
C6_FailedFilesAreCopied ==
    (pc = "returned" /\ ~mode.dry_run /\ faults = {}) =>
        \A k \in Results :
            ~processed_files[k].success =>
                /\ \E bucket \in {TextExtractionFailed, ClassificationFailed,
                                  UnsupportedFormat, ProcessingError} :
                      TriagedTo(processed_files[k], bucket)
                /\ (Truthy(hist[k].text)
                    /\ hist[k].classification = NoClassification) =>
                      TriagedTo(processed_files[k], ClassificationFailed)

\* the same statement for copy mode alone
C6_InCopyMode ==
    mode.copy_mode => C6_FailedFilesAreCopied

(***************************************************************************)
(* C7: triage is best effort: no failure of a file system operation made   *)
(* while organizing a failed file (creating _Errors or the bucket folder,  *)
(* resolving the name, copying, writing the report) leaves                 *)
(* _organize_failed_files or organize_folder as an exception, and the      *)
(* failed files that remain are still triaged.                             *)
(***************************************************************************)
C7_TriageNeverRaises ==
    /\ pc # "triage_raised"
    /\ (pc = "returned" /\ ~mode.dry_run
        /\ FailedFiles(processed_files) # <<>>) =>
          failed_idx = Len(FailedFiles(processed_files)) + 1

(***************************************************************************)
(* C11: in a dry run every file that is extracted and classified has a     *)
(* successful result whose placeholder path is DRY_RUN / sanitized         *)
(* category / (sanitized name + extension): the relative path a real run   *)
(* builds before collision resolution, for every category and name the     *)
(* classifier can return.                                                  *)
(***************************************************************************)
C11_DryRunPathIsSanitized ==
    \A k \in Results :
        (mode.dry_run /\ ReadyToPlace(k)) =>
            /\ processed_files[k].success
            /\ processed_files[k].new_path =
                  <<DryRunName>>
                      \o RelativeToBase(DesiredPath(processed_files[k]))

\* the same statement for the suggestions the sanitizers leave unchanged
C11_ForCleanSuggestions ==
    \A k \in Results :
        (/\ mode.dry_run
         /\ ReadyToPlace(k)
         /\ SanitizeFolderName(processed_files[k].category)
               = processed_files[k].category
         /\ SanitizeFilename(processed_files[k].new_filename)
               = processed_files[k].new_filename) =>
            /\ processed_files[k].success
            /\ processed_files[k].new_path =
                  <<DryRunName>>
                      \o RelativeToBase(DesiredPath(processed_files[k]))

(***************************************************************************)
(* Calls of FileRenamer.organize_file by two workers, each for its own     *)
(* source file.  With place.atomic the caller runs the whole call inside a *)
(* critical section; without it the existence checks (lines 36-46) and the *)
(* creation of the file (lines 48-57) of the two calls interleave.         *)
(***************************************************************************)

\* in/a.txt and in/classify.txt
PlaceSources ==
    <<<<<<"i", "n">>, <<"a", ".", "t", "x", "t">>>>,
      <<<<"i", "n">>, <<"c", "l", "a", "s", "s", "i", "f", "y", ".", "t", "x", "t">>>>>>

\* a file that was in the category folder before the calls
OldFile == CopyOf(<<<<"o", "l", "d">>>>)

\* suggestions nothing vouches for: "", ".", "..", "../x", "a\b" and a
\* string longer than both length caps
Untrusted ==
    {<<>>, <<".">>, <<".", ".">>, <<".", ".", "/", "x">>, <<"a", "\\", "b">>,
     Padding(FolderNameLimit + 1)}

Worker(source_file, category, new_filename, io) ==
    [pc |-> "start", source_file |-> source_file, category |-> category,
     new_filename |-> new_filename, io |-> io, target |-> NoPath,
     success |-> FALSE, new_path |-> NoPath, message |-> NoMessage]

PlaceInit ==
    /\ PipelineIdle
    /\ sanIn = <<>>
    /\ sanOut = [op |-> "none", value |-> NotCalled]
    /\ cls = clsIdle
    /\ col = colIdle
    /\ \E atomic \in BOOLEAN, copy_mode \in BOOLEAN, taken \in BOOLEAN,
          io1 \in PlacementFaults, io2 \in PlacementFaults,
          category \in {UberReceipts} \cup Untrusted,
          other \in {UberRideReceipt, <<"x">>} \cup Untrusted :
          place = [pc |-> "run",
                   atomic |-> atomic,
                   copy_mode |-> copy_mode,
                   fs |-> [root |-> TRUE,
                           dirs |-> IF taken
                                    THEN {Join(OutputBasePath, UberReceipts)}
                                    ELSE {},
                           files |-> IF taken
                                     THEN PutFile(NoFiles,
                                            <<OutName, UberReceipts,
                                              UberRideReceipt \o ExtTxt>>,
                                            OldFile)
                                     ELSE NoFiles],
                   sources |-> {PlaceSources[1], PlaceSources[2]},
                   w |-> <<Worker(PlaceSources[1], UberReceipts,
                                  UberRideReceipt, io1),
                           Worker(PlaceSources[2], category, other, io2)>>]

\* return True, target_path, message / return False, None, error_msg
PlaceReturn(w, r) ==
    [place EXCEPT !.w[w].pc = "done",
                  !.w[w].success = r.success,
                  !.w[w].new_path = r.new_path,
                  !.w[w].message = r.message,
                  !.fs = r.out,
                  !.sources = r.src]

\* the whole call, nothing of the other call between its steps
PlaceWhole(w) ==
    /\ place.pc = "run"
    /\ place.atomic
    /\ place.w[w].pc = "start"
    /\ place' = PlaceReturn(w, OrganizeFile(place.fs, place.sources,
                                            place.w[w].source_file,
                                            place.w[w].category,
                                            place.w[w].new_filename,
                                            place.copy_mode, place.w[w].io,
                                            NowSeconds))
    /\ UNCHANGED <<sanIn, sanOut, col, pipeVars, cls>>

\* lines 36-46 with the category folder and the final name
ResolveIn(w, category_folder, final_filename) ==
    IF place.w[w].io = "mkdir" \/ ~place.fs.root
       \/ category_folder \in DOMAIN place.fs.files
    THEN PlaceReturn(w, OrganizeFailure(place.fs, place.sources,
                                        place.w[w].source_file))
    ELSE [place EXCEPT
            !.fs.dirs = @ \cup {category_folder},
            !.w[w].pc = "resolved",
            !.w[w].target =
                HandleNamingCollision(
                    Existing(place.fs) \cup {category_folder},
                    Join(category_folder, final_filename), NowSeconds)]

\* organize_file, lines 36-46: the category folder, the desired path and
\* the existence checks of the collision resolver
PlaceResolve(w) ==
    /\ place.pc = "run"
    /\ ~place.atomic
    /\ place.w[w].pc = "start"
    /\ place' = ResolveIn(w,
                    Join(OutputBasePath,
                         SanitizeFolderName(place.w[w].category)),
                    SanitizeFilename(place.w[w].new_filename)
                        \o Suffix(NameOf(place.w[w].source_file)))
    /\ UNCHANGED <<sanIn, sanOut, col, pipeVars, cls>>

\* organize_file, lines 48-57: copy or move to the path resolved before
PlaceCopy(w) ==
    /\ place.pc = "run"
    /\ place.w[w].pc = "resolved"
    /\ place' = PlaceReturn(w, CopyOrMove(place.fs, place.sources,
                                          place.w[w].source_file,
                                          place.copy_mode, place.w[w].io,
                                          place.w[w].target))
    /\ UNCHANGED <<sanIn, sanOut, col, pipeVars, cls>>

PlaceNext ==
    \E w \in 1..2 : PlaceWhole(w) \/ PlaceResolve(w) \/ PlaceCopy(w)

SpecPlace == PlaceInit /\ [][PlaceNext]_vars

(***************************************************************************)
(* Claims about organize_file                                              *)
(***************************************************************************)

\* a is the beginning of s
StartsWith(s, a) == Len(s) >= Len(a) /\ SubSeq(s, 1, Len(a)) = a

\* what organize_file returns: a path together with success, or no path
\* together with a message that holds the text of the error
C12_OrganizeFileReturns ==
    \A w \in 1..2 :
        (place.pc = "run" /\ place.w[w].pc = "done") =>
            /\ place.w[w].io # "ok" => ~place.w[w].success
            /\ place.w[w].success =>
                  /\ place.w[w].new_path # NoPath
                  /\ place.w[w].new_path \in DOMAIN place.fs.files
            /\ ~place.w[w].success =>
                  /\ place.w[w].new_path = NoPath
                  /\ StartsWith(place.w[w].message, ErrorOrganizingFile)
                  /\ Contains(place.w[w].message, PermissionDenied)

(***************************************************************************)
(* C12: organize_file never raises: an I/O error while creating the        *)
(* category folder or copying/moving the file comes back as (False, None,  *)
(* message with the text of the error), a path comes back only with        *)
(* success, and the pipeline records that message as the error_message of  *)
(* the file.  For the pipeline: a file whose placement step was invoked    *)
(* and failed carries the message organize_file returned.                  *)
(***************************************************************************)
C12_PlacementNeverRaises ==
    \A k \in Results :
        (~mode.dry_run /\ ReadyToPlace(k)) =>
            /\ hist[k].steps = <<"extract", "classify", "place">>
            /\ processed_files[k].success
               \/ StartsWith(processed_files[k].error_message,
                             ErrorOrganizingFile)

BothDone == place.pc = "run" /\ place.w[1].pc = "done" /\ place.w[2].pc = "done"

C13_AtomicCase ==
    /\ BothDone
    /\ place.atomic
    /\ place.w[1].success /\ place.w[2].success
    /\ place.w[1].category = place.w[2].category
    /\ place.w[1].new_filename = place.w[2].new_filename

(***************************************************************************)
(* C16: triage puts a failed result into one of four buckets by            *)
(* case-insensitive substring match on its message, in this order:         *)
(* "extract text", "classify", "unsupported", else processing_error; so    *)
(* every placement I/O error, whose message is the one organize_file       *)
(* returns, lands in processing_error.                                     *)
(***************************************************************************)
C16_PlacementErrorsAreProcessingErrors ==
    \A w \in 1..2 :
        (place.pc = "run" /\ place.w[w].pc = "done" /\ ~place.w[w].success) =>
            ErrorCategory(place.w[w].message) = ProcessingError

\* the buckets of the failures the pipeline itself produces
C16_PipelineBuckets ==
    \A k \in Results :
        ~processed_files[k].success =>
            ErrorCategory(processed_files[k].error_message) =
                IF ~Truthy(hist[k].text) THEN TextExtractionFailed
                ELSE IF hist[k].classification = NoClassification
                THEN ClassificationFailed
                ELSE ProcessingError

(***************************************************************************)
(* Claims about two runs                                                   *)
(***************************************************************************)

SecondRunReturned == prev.run = 2 /\ pc = "returned" /\ faults = {}

\* an output tree without the dates of its error reports
Undated(fs) ==
    [fs EXCEPT !.files = [path \in DOMAIN fs.files |->
                            [fs.files[path] EXCEPT !.date = 0]]]

(***************************************************************************)
(* C14: two runs of organize_folder in copy mode on the same unchanged     *)
(* input folder, with the same extractor and classifier results, each      *)
(* against a fresh empty output folder, give the same results in the same  *)
(* order and identical output trees, everything under _Errors included.    *)
(***************************************************************************)
C14_RunsAreIdentical ==
    SecondRunReturned =>
        /\ processed_files = prev.processed_files
        /\ out = prev.out

\* the same statement with the "Processing date" of the reports left out
C14_IdenticalUpToDates ==
    SecondRunReturned =>
        /\ processed_files = prev.processed_files
        /\ Undated(out) = Undated(prev.out)

\* a second run that organized a failed file
C14_SecondRunTriaged ==
    SecondRunReturned /\ out.files # NoFiles

(***************************************************************************)
(* C15: when the input root is missing or is not a directory,              *)
(* organize_folder raises before anything is touched: no extraction,       *)
(* classification, placement or triage was invoked for any file, and the   *)
(* organizer has created, moved or deleted nothing up to that point, the   *)
(* output root included.                                                   *)
(***************************************************************************)
C15_InvalidInputTouchesNothing ==
    pc = "input_raised" =>
        /\ hist = <<>>
        /\ processed_files = <<>>
        /\ src = input.tree
        /\ out = out0

\* the same statement but for the output root made by the constructor
C15_OnlyTheOutputRoot ==
    pc = "input_raised" =>
        /\ hist = <<>>
        /\ processed_files = <<>>
        /\ src = input.tree
        /\ out = [out0 EXCEPT !.root = TRUE]

(***************************************************************************)
(* C17: organize_folder processes the files one after the other in         *)
(* discovery order with one-shot steps: for each file extract once, then   *)
(* classify at most once, then placement at most once, no step retried;    *)
(* the steps of file i are over before file i+1 begins; triage starts only *)
(* after the result of every file has been recorded.                       *)
(***************************************************************************)
C17_SequentialOneShot ==
    /\ Len(hist) = Len(processed_files)
    /\ \A k \in 1..Len(hist) :
          /\ hist[k].file = files_to_process[k]
          /\ hist[k].steps \in {<<"extract">>, <<"extract", "classify">>,
                                <<"extract", "classify", "place">>}
    /\ pc = "loop" =>
          /\ Len(hist) = file_idx - 1
          /\ failed_idx = 1
          /\ ErrorsFolder \notin out.dirs
    /\ (pc \in {"triage", "triage_loop", "triage_raised"}
        \/ ErrorsFolder \in out.dirs
        \/ failed_idx > 1) =>
          Len(hist) = Len(files_to_process)

\* triage at work after two files, one stopped at extraction and one that
\* went through the three steps
C17_Witness ==
    /\ pc = "triage_loop"
    /\ failed_idx = 2
    /\ Len(hist) = 2
    /\ \E k \in 1..2 : hist[k].steps = <<"extract">>
    /\ \E k \in 1..2 : hist[k].steps = <<"extract", "classify", "place">>

\* the result of a file whose extraction failed: the classifier is not
\* called, the message is "Could not extract text from <type> file" and the
\* bucket is text_extraction_failed
ExtractionFailureOf(k) ==
    /\ hist[k].steps = <<"extract">>
    /\ ~processed_files[k].success
    /\ processed_files[k].error_message =
          CouldNotExtractTextFrom
              \o DetectFileType(hist[k].file) \o SpaceFile
    /\ ErrorCategory(processed_files[k].error_message) = TextExtractionFailed

(***************************************************************************)
(* C18: a supported file whose extraction yields only whitespace or the    *)
(* empty string is treated exactly like one whose extraction yields        *)
(* nothing: extract_text normalizes the text to absent (it returns no      *)
(* blank string), the classifier is not called, and the result is failed   *)
(* with the same message and the same bucket.                              *)
(***************************************************************************)
C18_BlankTextIsAbsent ==
    \A k \in Results :
        ~Truthy(hist[k].text) =>
            /\ hist[k].text = NoneText
            /\ ExtractionFailureOf(k)

\* the same statement without the value extract_text returns
C18_BlankTextFailsAlike ==
    \A k \in Results :
        ~Truthy(hist[k].text) => ExtractionFailureOf(k)

\* discovery has run: files_to_process holds what it returned
Discovered ==
    pc \in {"loop", "triage", "triage_loop", "triage_raised", "returned"}
       /\ input.valid

\* the files of the tree with one of the ten extensions, each exactly once
ExactlyTheSupportedFiles(tree, files) ==
    /\ {files[i] : i \in 1..Len(files)} =
          {f \in tree : Lower(Suffix(NameOf(f))) \in SupportedExtensions}
    /\ \A i, j \in 1..Len(files) : files[i] = files[j] => i = j

(***************************************************************************)
(* C19: discovery returns exactly the regular files under the input root   *)
(* whose extension, compared case-insensitively, is one of the ten         *)
(* supported ones, each exactly once, in ascending lexicographic order of  *)
(* their paths (the order of the path strings), and the sequence depends   *)
(* only on the directory contents.                                         *)
(***************************************************************************)
C19_DiscoveryInPathOrder ==
    Discovered =>
        /\ ExactlyTheSupportedFiles(input.tree, files_to_process)
        /\ \A i, j \in 1..Len(files_to_process) :
              i < j => StrLess(PathStr(files_to_process[i]),
                               PathStr(files_to_process[j]))
        /\ files_to_process = FindFilesToProcess(input.tree)

\* the same statement with the order of sorted() on Path objects, which
\* compares the paths component by component
C19_DiscoveryInComponentOrder ==
    Discovered =>
        /\ ExactlyTheSupportedFiles(input.tree, files_to_process)
        /\ \A i, j \in 1..Len(files_to_process) :
              i < j => PathLess(files_to_process[i], files_to_process[j])
        /\ files_to_process = FindFilesToProcess(input.tree)

\* raw with each of the nine characters replaced by '_'
Replaced(raw) ==
    [i \in 1..Len(raw) |-> IF raw[i] \in ProblematicChars THEN "_" ELSE raw[i]]

\* the positions of a name that hold neither '.' nor ' '
Kept(name) == {i \in 1..Len(name) : name[i] \notin {".", " "}}

\* the characters of name from lo to hi, at most 100 of them
KeptAndCut(name, lo, hi) ==
    SubSeq(name, lo,
           IF hi < lo + FolderNameLimit THEN hi ELSE lo + FolderNameLimit - 1)

\* name from the first to the last of the kept positions, cut to 100
StrippedAndCut(name, kept) ==
    IF kept = {} THEN <<>>
    ELSE KeptAndCut(name,
                    CHOOSE i \in kept : \A j \in kept : i <= j,
                    CHOOSE i \in kept : \A j \in kept : j <= i)

\* the folder name the description gives for raw
DescribedFolderName(cut) == IF cut = <<>> THEN Uncategorized ELSE cut

(***************************************************************************)
(* C20: _sanitize_folder_name(raw) is raw with each of / \ : * ? " < > |   *)
(* replaced by '_', stripped of leading and trailing '.' and ' ', cut to   *)
(* 100 characters, and "Uncategorized" if that is empty; so the result is  *)
(* never empty, has at most 100 characters and none of the nine            *)
(* characters, sanitize("") = "Uncategorized", sanitize("A/B") = "A_B",    *)
(* and the call returns for every string.                                  *)
(***************************************************************************)
C20_FolderNameIsSanitized ==
    /\ SanitizeFolderName(<<>>) = Uncategorized
    /\ SanitizeFolderName(<<"A", "/", "B">>) = <<"A", "_", "B">>
    /\ sanOut.op = "folder" =>
          /\ sanOut.value # NotCalled
          /\ sanOut.value # <<>>
          /\ Len(sanOut.value) <= FolderNameLimit
          /\ \A i \in 1..Len(sanOut.value) :
                sanOut.value[i] \notin ProblematicChars
          /\ sanOut.value =
                DescribedFolderName(
                    StrippedAndCut(Replaced(sanIn), Kept(Replaced(sanIn))))

\* a name of more than 100 characters that starts with one of the nine
\* characters was cut to 100
C20_Witness ==
    /\ sanOut.op = "folder"
    /\ sanIn # <<>>
    /\ sanIn[1] \in ProblematicChars
    /\ Len(sanIn) > FolderNameLimit
    /\ Len(sanOut.value) = FolderNameLimit
    /\ sanOut.value[1] = "_"

\* a name of '.' and ' ' only became "Uncategorized"
C20_DefaultCase ==
    /\ sanOut.op = "folder"
    /\ sanIn # <<>>
    /\ sanOut.value = Uncategorized

(***************************************************************************)
(* One call of FileClassifier.classify_file on a drawn reply of the model, *)
(* followed by what _process_single_file makes of what it returned.        *)
(***************************************************************************)

\* the parts a reply is made of: prose, braces, the two members, and a
\* member whose value is no string ("category": null)
ReplyParts ==
    {Word, LBrace, RBrace, Member("category", UberReceipts),
     Member("new_filename", <<"x">>), Member("category", NonString)}

\* {"category": "Uber Receipts", "new_filename": "x"} twice
TwoObjects ==
    <<LBrace, Member("category", UberReceipts),
      Member("new_filename", <<"x">>), RBrace,
      LBrace, Member("category", UberReceipts),
      Member("new_filename", <<"x">>), RBrace>>

ClsReplies == SeqsUpTo(ReplyParts, MaxReply) \cup {ApiError, TwoObjects}

ClsInit ==
    /\ PipelineIdle
    /\ sanIn = <<>>
    /\ sanOut = [op |-> "none", value |-> NotCalled]
    /\ col = colIdle
    /\ place = placeIdle
    /\ \E reply \in ClsReplies, dry_run \in BOOLEAN :
          cls = [pc |-> "start",
                 file_path |-> PlaceSources[1],
                 text |-> <<"h", "i">>,
                 reply |-> reply,
                 dry_run |-> dry_run]

\* classification = self.classifier.classify_file(file_path.name, text)
ClsClassify ==
    /\ cls.pc = "start"
    /\ cls' = [pc |-> "classified",
               file_path |-> cls.file_path,
               text |-> cls.text,
               reply |-> cls.reply,
               dry_run |-> cls.dry_run,
               value |-> ClassifyFile(NameOf(cls.file_path), cls.text,
                                      cls.reply)]
    /\ UNCHANGED <<sanIn, sanOut, col, place, pipeVars>>

\* organize.py lines 147-170 with what classify_file returned
ClsRecord ==
    /\ cls.pc = "classified"
    /\ cls' = [pc |-> "recorded",
               file_path |-> cls.file_path,
               text |-> cls.text,
               reply |-> cls.reply,
               dry_run |-> cls.dry_run,
               value |-> cls.value,
               done |-> AfterClassify(cls.file_path, "ok", cls.dry_run, TRUE,
                                      [root |-> TRUE, dirs |-> {},
                                       files |-> NoFiles],
                                      {cls.file_path}, NowSeconds, cls.text,
                                      cls.value)]
    /\ UNCHANGED <<sanIn, sanOut, col, place, pipeVars>>

ClsNext == ClsClassify \/ ClsRecord

SpecCls == ClsInit /\ [][ClsNext]_vars

\* the reply from its first '{' to its last '}'
JsonSlice(reply) == SubSeq(reply, FindLBrace(reply), RFindRBrace(reply))

\* the cases of a reply that holds no suggestion
NoBraces(reply) ==
    \/ \A i \in 1..Len(reply) : reply[i] # LBrace
    \/ \A i \in 1..Len(reply) : reply[i] # RBrace

NoSuggestionIn(reply) ==
    \/ reply = ApiError
    \/ NoBraces(reply)
    \/ ~JsonObject(JsonSlice(reply))
    \/ ~HasKey(JsonSlice(reply), "category")
    \/ ~HasKey(JsonSlice(reply), "new_filename")

(***************************************************************************)
(* C21: classify_file never raises, and it returns None when the reply     *)
(* holds no '{' or no '}', when the slice from the first '{' to the last   *)
(* '}' is not valid JSON (two objects, or the last '}' before the first    *)
(* '{'), when the object lacks "category" or "new_filename", and when the  *)
(* model call fails; the pipeline then records a failed outcome with the   *)
(* message "Could not classify file content".                              *)
(***************************************************************************)
C21_NoSuggestionIsAFailure ==
    /\ cls.pc \in {"classified", "recorded"} =>
          /\ cls.value = NoClassification
             \/ DOMAIN cls.value = {"category", "new_filename"}
          /\ NoSuggestionIn(cls.reply) => cls.value = NoClassification
    /\ (cls.pc = "recorded" /\ cls.value = NoClassification) =>
          /\ cls.done.steps = <<"extract", "classify">>
          /\ ~cls.done.result.success
          /\ cls.done.result.error_message = CouldNotClassify
          /\ cls.done.result.new_path = NoPath

\* a reply that holds two objects was recorded as a classification failure
C21_Witness ==
    /\ cls.pc = "recorded"
    /\ cls.reply = TwoObjects
    /\ cls.done.result.error_message = CouldNotClassify

\* a reply whose last '}' precedes its first '{'
C21_BracesReversed ==
    /\ cls.pc = "recorded"
    /\ RFindRBrace(cls.reply) # 0
    /\ RFindRBrace(cls.reply) < FindLBrace(cls.reply)
    /\ cls.done.result.error_message = CouldNotClassify

\* a reply that names both fields was classified
C21_Classified ==
    /\ cls.pc = "recorded"
    /\ cls.value # NoClassification
    /\ cls.done.result.category = UberReceipts

\* the path the placement of the k-th file asks for, from what the
\* classifier suggested for it
WantedPath(k) ==
    Join(Join(OutputBasePath,
              SanitizeFolderName(hist[k].classification.category)),
         SanitizeFilename(hist[k].classification.new_filename)
             \o Suffix(NameOf(hist[k].file)))

\* what was in the output tree before the run is still there, unchanged
OutputKept(before, after) ==
    \A p \in DOMAIN before.files :
        p \in DOMAIN after.files /\ after.files[p] = before.files[p]

(***************************************************************************)
(* C22: successful placements never overwrite.  In a run that is not a dry *)
(* run (and with fewer than 999 numbered variants of any name) the         *)
(* successful results have pairwise distinct new_path values, every file   *)
(* that was in the output root before is still there with its content,     *)
(* and two files classified to the same category and name are placed at    *)
(* name.ext and name_001.ext.                                              *)
(***************************************************************************)
C22_PlacementsNeverOverwrite ==
    ~mode.dry_run =>
        /\ \A k, l \in Results :
              (k < l /\ processed_files[k].success
                     /\ processed_files[l].success) =>
                  processed_files[k].new_path # processed_files[l].new_path
        /\ OutputKept(out0, out)
        /\ \A k, l \in Results :
              (k < l /\ ReadyToPlace(k) /\ ReadyToPlace(l)
                     /\ WantedPath(k) = WantedPath(l)) =>
                  /\ processed_files[k].success
                  /\ processed_files[l].success
                  /\ processed_files[k].new_path = WantedPath(k)
                  /\ processed_files[l].new_path
                        = NumberedPath(WantedPath(l), 1)

\* the same statement without the two files of the same name: nothing that
\* organize_folder reports as placed shares its path, nothing is replaced
C22_NothingReplaced ==
    ~mode.dry_run =>
        /\ \A k, l \in Results :
              (k < l /\ processed_files[k].success
                     /\ processed_files[l].success) =>
                  processed_files[k].new_path # processed_files[l].new_path
        /\ OutputKept(out0, out)

\* organize_file called with its four arguments, one call after the other:
\* the file that was there is kept, and two calls for the same name get the
\* first two free names
C22_CallsNeverOverwrite ==
    (BothDone /\ place.atomic) =>
        /\ \A p \in DOMAIN place.fs.files :
              place.fs.files[p] = OldFile
              \/ \E w \in 1..2 :
                    /\ place.w[w].success
                    /\ place.w[w].new_path = p
                    /\ place.fs.files[p] = CopyOf(place.w[w].source_file)
        /\ Cardinality(DOMAIN place.fs.files) =
              Cardinality({w \in 1..2 : place.w[w].success})
              + Cardinality({p \in DOMAIN place.fs.files :
                                place.fs.files[p] = OldFile})
        /\ (place.w[1].success /\ place.w[2].success
            /\ place.w[1].category = place.w[2].category
            /\ place.w[1].new_filename = place.w[2].new_filename
            /\ \A p \in DOMAIN place.fs.files : place.fs.files[p] # OldFile) =>
              \E first \in 1..2 :
                  /\ place.w[first].new_path =
                        <<OutName, UberReceipts, UberRideReceipt \o ExtTxt>>
                  /\ place.w[3 - first].new_path =
                        NumberedPath(place.w[first].new_path, 1)

(***************************************************************************)
(* C23: no source file is ever lost.  In copy mode and in a dry run every  *)
(* file of the input folder is still at its original path; in move mode a  *)
(* file is absent from its original path only if its result is successful  *)
(* and the file is at the result's new_path; every file with a failed      *)
(* result is still at its original path, in either mode.                   *)
(***************************************************************************)
C23_NoSourceLost ==
    /\ (mode.copy_mode \/ mode.dry_run) => src = input.tree
    /\ src \subseteq input.tree
    /\ \A f \in input.tree \ src :
          \E k \in Results :
              /\ processed_files[k].original_path = f
              /\ processed_files[k].success
              /\ processed_files[k].new_path \in DOMAIN out.files
              /\ out.files[processed_files[k].new_path] = CopyOf(f)
    /\ \A k \in Results :
          ~processed_files[k].success => processed_files[k].original_path \in src

\* organize_folder returned from a run in move mode in which the placement
\* of a file failed, and the file is where it was
C23_Witness ==
    /\ pc = "returned"
    /\ ~mode.dry_run
    /\ ~mode.copy_mode
    /\ \E k \in Results :
          /\ hist[k].steps = <<"extract", "classify", "place">>
          /\ ~processed_files[k].success
          /\ processed_files[k].original_path \in src

\* organize_file called with its four arguments, one call after the other:
\* a source is gone only if its call moved it to the path it returned
C23_CallsLoseNothing ==
    (place.pc = "run" /\ place.atomic) =>
        /\ place.copy_mode =>
              place.sources = {PlaceSources[1], PlaceSources[2]}
        /\ \A w \in 1..2 :
              place.w[w].source_file \notin place.sources =>
                  /\ place.w[w].pc = "done"
                  /\ place.w[w].success
                  /\ place.w[w].new_path \in DOMAIN place.fs.files
                  /\ place.fs.files[place.w[w].new_path]
                        = CopyOf(place.w[w].source_file)

\* a call in move mode took its source to the path it returned
C23_Moved ==
    /\ place.pc = "run"
    /\ place.atomic
    /\ ~place.copy_mode
    /\ place.w[1].pc = "done"
    /\ place.w[1].success
    /\ place.w[1].source_file \notin place.sources

(***************************************************************************)
(* _organize_failed_files on the results of a run in which every file      *)
(* failed at extraction or at classification.                              *)
(***************************************************************************)

\* in/a.txt, in/a/a.txt and in/a/a.txt.error_info.txt
TriageUniverse ==
    {<<<<"i", "n">>, <<"a", ".", "t", "x", "t">>>>,
     <<<<"i", "n">>, <<"a">>, <<"a", ".", "t", "x", "t">>>>,
     <<<<"i", "n">>, <<"a">>, <<"a", ".", "t", "x", "t">> \o ErrorInfoSuffix>>}

\* what _process_single_file returned for file_path: extraction failed, or
\* the reply of the model held no object
FailedAt(file_path, raw, copy_mode, sources) ==
    ProcessSingleFile(file_path, raw, <<Word, Word>>, "ok", FALSE, copy_mode,
                      [root |-> TRUE, dirs |-> {}, files |-> NoFiles],
                      sources, NowSeconds)

\* the results of the loop of organize_folder, lines 94-106
FailedRun(files, raws, copy_mode, sources) ==
    [i \in 1..Len(files) |->
        FailedAt(files[i], raws[i], copy_mode, sources)]

TriageStartsWith(run) ==
    /\ processed_files = [i \in 1..Len(run) |-> run[i].result]
    /\ hist = [i \in 1..Len(run) |->
                  [file |-> run[i].result.original_path,
                   steps |-> run[i].steps, text |-> run[i].text,
                   classification |-> run[i].classification,
                   io |-> run[i].io]]

TriageInit ==
    /\ pc = "triage"
    /\ mode \in [dry_run : {FALSE}, copy_mode : BOOLEAN]
    /\ input \in {[valid |-> TRUE, tree |-> tree] :
                    tree \in (SUBSET TriageUniverse) \ {{}}}
    /\ out = [root |-> TRUE, dirs |-> {}, files |-> NoFiles]
    /\ out0 = out
    /\ src = input.tree
    /\ files_to_process = FindFilesToProcess(input.tree)
    /\ file_idx = Len(files_to_process) + 1
    /\ \E raws \in [1..Len(files_to_process) ->
                       {BackendFailed, <<" ", "h", "i", "\n">>}] :
          TriageStartsWith(FailedRun(files_to_process, raws, mode.copy_mode,
                                     src))
    /\ failed_idx = 1
    /\ faults = {}
    /\ prev = NoPrev
    /\ sanIn = <<>>
    /\ sanOut = [op |-> "none", value |-> NotCalled]
    /\ cls = clsIdle
    /\ col = colIdle
    /\ place = placeIdle

TriageNext == TriageEnter \/ TriageNextFile

SpecTriage == TriageInit /\ [][TriageNext]_vars

\* the failed files before the one that triage handles next
TriagedSoFar ==
    IF pc \in {"triage_loop", "returned"} THEN 1..(failed_idx - 1) ELSE {}

(***************************************************************************)
(* C24: failure triage never overwrites anything under outputRoot/_Errors: *)
(* for any set of failed files (files of different input subfolders that   *)
(* share a name, files whose own name ends in .error_info.txt) every copy  *)
(* and every error report of one pass is written to a path that did not    *)
(* exist before that write, so that after triage the copy and the report   *)
(* of every failed file are both there with their own content.             *)
(***************************************************************************)
C24_TriageNeverOverwrites ==
    [][OutputKept(out, out')]_vars

\* the last part of the claim as a state predicate: in copy mode, when the
\* file system raised nothing, each failed file handled so far has its copy
\* and its report
C24_CopiesAndReportsKept ==
    (mode.copy_mode /\ faults = {}) =>
        \A j \in TriagedSoFar :
            \E bucket \in {TextExtractionFailed, ClassificationFailed} :
                TriagedTo(FailedFiles(processed_files)[j], bucket)

\* the same as C24_TriageNeverOverwrites for failed files of which none has
\* a name that ends in .error_info.txt
C24_OtherNamesKept ==
    [][(\A f \in input.tree :
           Len(NameOf(f)) <= Len(ErrorInfoSuffix)
           \/ SubSeq(NameOf(f), Len(NameOf(f)) - Len(ErrorInfoSuffix) + 1,
                     Len(NameOf(f))) # ErrorInfoSuffix)
        => OutputKept(out, out')]_vars

\* files of two subfolders that share a name were triaged into one bucket
\* without a fault: a.txt and a_001.txt
C24_SharedName ==
    /\ pc = "returned"
    /\ mode.copy_mode
    /\ faults = {}
    /\ \E p \in DOMAIN out.files :
          /\ NumberedPath(p, 1) \in DOMAIN out.files
          /\ out.files[p].kind = "copy"
          /\ out.files[NumberedPath(p, 1)].kind = "copy"
          /\ NameOf(out.files[p].original)
                = NameOf(out.files[NumberedPath(p, 1)].original)

\* one file or folder name of the output layout: not empty, not "." or
\* "..", without a path separator
PlainName(name) ==
    /\ name # <<>>
    /\ name # <<".">>
    /\ name # <<".", ".">>
    /\ \A i \in 1..Len(name) : name[i] \notin {"/", "\\"}

\* outputRoot / folder / file
InLayout(path) ==
    /\ Len(path) = 3
    /\ path[1] = OutName
    /\ PlainName(path[2])
    /\ PlainName(path[3])

(***************************************************************************)
(* C25: placement is confined to the output layout.  For every category    *)
(* and suggested name, untrusted ones included ("", ".", "..", strings     *)
(* with path separators, strings longer than the length caps), the path    *)
(* organize_file writes to is outputRoot / one folder name / one file      *)
(* name, neither of them empty, "." or "..", neither with '/' or '\': no   *)
(* file is created outside outputRoot or directly in it.                   *)
(***************************************************************************)
C25_PlacementIsConfined ==
    place.pc = "run" =>
        /\ \A w \in 1..2 :
              /\ place.w[w].target # NoPath => InLayout(place.w[w].target)
              /\ place.w[w].new_path # NoPath =>
                    /\ InLayout(place.w[w].new_path)
                    /\ place.w[w].new_path \in DOMAIN place.fs.files
        /\ \A p \in DOMAIN place.fs.files : InLayout(p)

\* a call with the category "../x" and the name ".." placed its file
C25_Witness ==
    /\ place.pc = "run"
    /\ place.w[2].pc = "done"
    /\ place.w[2].success
    /\ place.w[2].category = <<".", ".", "/", "x">>
    /\ place.w[2].new_filename = <<".", ".">>
    /\ place.w[2].new_path =
          <<OutName, <<"_", "x">>, UnnamedFile \o ExtTxt>>

====
